---- MODULE Spec2Model ----
(***************************************************************************)
(* FEWS NET price database: the DuckDB upsert routines of                  *)
(* database/fews_database.py, the sync runs of sync_fews_db.py and the     *)
(* request loop of fewsnet_haiti_downloader.py, and the model fitting of   *)
(* dashboard/forecasting.py.                                               *)
(*                                                                         *)
(* Tables are sequences of rows; a row's id is its position (ids are       *)
(* generated on insert and no row is ever deleted).  SQL NULL / Python     *)
(* None is the string NULL for text values and NoId for row ids.  A date   *)
(* is <<year, month, day>>; its "%Y-%m-%d" text is a sequence of digits.   *)
(***************************************************************************)
EXTENDS Integers, Sequences, FiniteSets, TLC

VARIABLES
    markets,             \* table markets
    products,            \* table products
    units,               \* table units
    data_sources,        \* table data_sources
    price_observations,  \* table price_observations
    import_log,          \* table import_log, in import_date order
    keysNullable,        \* schema.sql: do the dimension key columns accept NULL
    today,               \* datetime.now(), as a date
    call,                \* the last call of a FEWSDatabase method and what it returned
    run,                 \* the last run of sync_fews_db.py and how it ended
    processed,           \* rows handed to the database so far
    http,                \* FEWSNETClient._make_request in progress
    forecast             \* a call of forecasting.fit_all_models and what it returned

vars == <<markets, products, units, data_sources, price_observations,
          import_log, keysNullable, today, call, run, processed, http, forecast>>

dbvars == <<markets, products, units, data_sources, price_observations>>

----------------------------------------------------------------------------
(* Bounds of the model *)

\* rows of a DataFrame handed to sync_dataframe
MaxRows == 3
\* rows handed to the database in one behaviour
MaxTotalRows == 3
\* sync runs in a behaviour of Spec
MaxRuns == 3
\* rows of an answer of the API to a sync run
MaxFetched == 1
\* days the clock advances
MaxTicks == 1
\* requests in a behaviour of SpecHttp
MaxRequests == 2
\* rows of the result of the query of get_price_data
MaxObs == 3
\* the largest min_months fit_all_models is called with
MaxMinMonths == 2

----------------------------------------------------------------------------
(* Values *)

NULL == "NULL"
NoId == 0

\* SQL "a = ?": never true when either side is NULL
SqlEq(a, b) == a # NULL /\ b # NULL /\ a = b

\* fetchone() of a lookup: the first matching row's id, or NoId for None
FetchOne(ids) == IF ids = {} THEN NoId ELSE CHOOSE i \in ids : \A j \in ids : i <= j

TheDb == [markets |-> markets, products |-> products, units |-> units,
          data_sources |-> data_sources, price_observations |-> price_observations]

----------------------------------------------------------------------------
(* Dates and their "%Y-%m-%d" text                                         *)
(* A date string is its eight digits, most significant first; the dashes   *)
(* stand at fixed places and take no part in a comparison.                 *)

IsLeap(y) == (y % 4 = 0 /\ y % 100 # 0) \/ y % 400 = 0

DaysInMonth(y, m) ==
    IF m = 2 THEN (IF IsLeap(y) THEN 29 ELSE 28)
    ELSE IF m \in {4, 6, 9, 11} THEN 30 ELSE 31

\* date + timedelta(days=1)
NextDay(d) ==
    IF d[3] < DaysInMonth(d[1], d[2]) THEN <<d[1], d[2], d[3] + 1>>
    ELSE IF d[2] < 12 THEN <<d[1], d[2] + 1, 1>>
    ELSE <<d[1] + 1, 1, 1>>

\* date.strftime("%Y-%m-%d")
Strftime(d) ==
    <<d[1] \div 1000, (d[1] \div 100) % 10, (d[1] \div 10) % 10, d[1] % 10,
      d[2] \div 10, d[2] % 10, d[3] \div 10, d[3] % 10>>

\* datetime.strptime(s, "%Y-%m-%d")
Strptime(s) ==
    <<1000 * s[1] + 100 * s[2] + 10 * s[3] + s[4], 10 * s[5] + s[6], 10 * s[7] + s[8]>>

\* the comparison made on day-first text ("%d-%m-%Y") instead
StrGreaterDayFirst(a, b) ==
    LET dmy(s) == <<s[7], s[8], s[5], s[6], s[1], s[2], s[3], s[4]>>
    IN  \E i \in 1..8 :
            /\ dmy(a)[i] > dmy(b)[i]
            /\ \A j \in 1..(i - 1) : dmy(a)[j] = dmy(b)[j]

\* a > b on strings
StrGreater(a, b) ==
    \E i \in 1..Len(a) :
        /\ i <= Len(b)
        /\ a[i] > b[i]
        /\ \A j \in 1..(i - 1) : a[j] = b[j]

\* the literal "2005-01-01"
FirstDate == <<2, 0, 0, 5, 0, 1, 0, 1>>

\* None, where a date string is expected
None == <<>>

\* the day the model's clock starts at
Day0 == <<2005, 12, 31>>

RECURSIVE AddDays(_, _)
AddDays(d, n) == IF n = 0 THEN d ELSE AddDays(NextDay(d), n - 1)

----------------------------------------------------------------------------
(* Dimension tables: get_or_create_*                                       *)
(* Each returns [db, id, raised]: the database after the call, the id      *)
(* returned, and whether the call raised instead of returning.             *)

\* INSERT of a dimension row whose key columns hold `keys`: the schema
\* either accepts a NULL key or rejects the statement
InsertAccepted(nullable, keys) == nullable \/ NULL \notin keys

\* the helper handing back None where the second SELECT finds no row
GetOrCreateMarketOrNone(db, nullable, row) ==
    LET fews_id == row.market_id
        found == FetchOne({i \in 1..Len(db.markets) : SqlEq(db.markets[i].fews_id, fews_id)})
        new == [fews_id |-> fews_id, name |-> row.market]
        db2 == [db EXCEPT !.markets = Append(@, new)]
        again == FetchOne({i \in 1..Len(db2.markets) : SqlEq(db2.markets[i].fews_id, fews_id)})
    IN  IF found # NoId THEN [db |-> db, id |-> found, raised |-> FALSE]
        ELSE IF ~InsertAccepted(nullable, {fews_id})
             THEN [db |-> db, id |-> NoId, raised |-> TRUE]
        ELSE [db |-> db2, id |-> again, raised |-> FALSE]

GetOrCreateMarket(db, nullable, row) ==
    LET fews_id == row.market_id
        found == FetchOne({i \in 1..Len(db.markets) : SqlEq(db.markets[i].fews_id, fews_id)})
        new == [fews_id |-> fews_id, name |-> row.market]
        db2 == [db EXCEPT !.markets = Append(@, new)]
        again == FetchOne({i \in 1..Len(db2.markets) : SqlEq(db2.markets[i].fews_id, fews_id)})
    IN  IF found # NoId THEN [db |-> db, id |-> found, raised |-> FALSE]
        ELSE IF ~InsertAccepted(nullable, {fews_id})
             THEN [db |-> db, id |-> NoId, raised |-> TRUE]
        ELSE IF again = NoId THEN [db |-> db2, id |-> NoId, raised |-> TRUE]
        ELSE [db |-> db2, id |-> again, raised |-> FALSE]

GetOrCreateProduct(db, nullable, row) ==
    LET name == row.product
        source == row.product_source
        Match(r) == SqlEq(r.name, name) /\ SqlEq(r.product_source, source)
        found == FetchOne({i \in 1..Len(db.products) : Match(db.products[i])})
        new == [name |-> name, product_source |-> source, cpcv2 |-> row.cpcv2]
        db2 == [db EXCEPT !.products = Append(@, new)]
        again == FetchOne({i \in 1..Len(db2.products) : Match(db2.products[i])})
    IN  IF found # NoId THEN [db |-> db, id |-> found, raised |-> FALSE]
        ELSE IF ~InsertAccepted(nullable, {name, source})
             THEN [db |-> db, id |-> NoId, raised |-> TRUE]
        ELSE IF again = NoId THEN [db |-> db2, id |-> NoId, raised |-> TRUE]
        ELSE [db |-> db2, id |-> again, raised |-> FALSE]

GetOrCreateUnit(db, nullable, row) ==
    LET name == row.unit
        found == FetchOne({i \in 1..Len(db.units) : SqlEq(db.units[i].name, name)})
        new == [name |-> name, unit_type |-> row.unit_type]
        db2 == [db EXCEPT !.units = Append(@, new)]
        again == FetchOne({i \in 1..Len(db2.units) : SqlEq(db2.units[i].name, name)})
    IN  IF found # NoId THEN [db |-> db, id |-> found, raised |-> FALSE]
        ELSE IF ~InsertAccepted(nullable, {name})
             THEN [db |-> db, id |-> NoId, raised |-> TRUE]
        ELSE IF again = NoId THEN [db |-> db2, id |-> NoId, raised |-> TRUE]
        ELSE [db |-> db2, id |-> again, raised |-> FALSE]

\* a missing datasourceorganization is no error: the source id is None
GetOrCreateSource(db, nullable, row) ==
    LET fews_id == row.datasourceorganization
        found == FetchOne({i \in 1..Len(db.data_sources) : SqlEq(db.data_sources[i].fews_id, fews_id)})
        new == [fews_id |-> fews_id, name |-> row.source_organization]
        db2 == [db EXCEPT !.data_sources = Append(@, new)]
        again == FetchOne({i \in 1..Len(db2.data_sources) : SqlEq(db2.data_sources[i].fews_id, fews_id)})
    IN  IF fews_id = NULL THEN [db |-> db, id |-> NoId, raised |-> FALSE]
        ELSE IF found # NoId THEN [db |-> db, id |-> found, raised |-> FALSE]
        ELSE [db |-> db2, id |-> again, raised |-> FALSE]

----------------------------------------------------------------------------
(* Fact table: upsert_price_observation                                    *)

\* timestamps pd.to_datetime parses; anything else raises inside the try
Timestamps == {"t1", "t2"}

\* lines 207-214: the parsed "modified" value, None when missing or unparsable
ApiModified(row) ==
    IF row.modified = NULL THEN NULL
    ELSE IF row.modified \in Timestamps THEN row.modified
    ELSE NULL

\* the SELECT of lines 200-204
FindObservation(db, market_id, product_id, unit_id, period_date, price_type) ==
    LET Match(o) == /\ o.market_id = market_id
                    /\ o.product_id = product_id
                    /\ o.unit_id = unit_id
                    /\ o.period_date = period_date
                    /\ SqlEq(o.price_type, price_type)
    IN  FetchOne({i \in 1..Len(db.price_observations) :
                    Match(db.price_observations[i])})

\* an update that keeps the stored row when the incoming "modified" is older
UpdateObservationIfNewer(old, row) ==
    IF old.api_modified_at = "t2" /\ ApiModified(row) = "t1" THEN old
    ELSE [old EXCEPT !.value = row.value,
                     !.exchange_rate = row.exchange_rate,
                     !.common_unit_price = row.common_unit_price,
                     !.common_currency_price = row.common_currency_price,
                     !.collection_status = row.collection_status,
                     !.api_modified_at = ApiModified(row)]

\* the UPDATE of lines 218-236
UpdateObservation(old, row) ==
    [old EXCEPT !.value = row.value,
                !.exchange_rate = row.exchange_rate,
                !.common_unit_price = row.common_unit_price,
                !.common_currency_price = row.common_currency_price,
                !.collection_status = row.collection_status,
                !.api_modified_at = ApiModified(row)]

\* an INSERT that leaves the api_modified_at column out
NewObservationUnstamped(row, market_id, product_id, unit_id, source_id) ==
    [market_id |-> market_id, product_id |-> product_id, unit_id |-> unit_id,
     source_id |-> source_id, period_date |-> row.period_date,
     price_type |-> row.price_type, value |-> row.value,
     exchange_rate |-> row.exchange_rate,
     common_unit_price |-> row.common_unit_price,
     common_currency_price |-> row.common_currency_price,
     collection_status |-> row.collection_status,
     api_modified_at |-> NULL]

\* the INSERT of lines 240-263
NewObservation(row, market_id, product_id, unit_id, source_id) ==
    [market_id |-> market_id, product_id |-> product_id, unit_id |-> unit_id,
     source_id |-> source_id, period_date |-> row.period_date,
     price_type |-> row.price_type, value |-> row.value,
     exchange_rate |-> row.exchange_rate,
     common_unit_price |-> row.common_unit_price,
     common_currency_price |-> row.common_currency_price,
     collection_status |-> row.collection_status,
     api_modified_at |-> ApiModified(row)]

\* the upsert without its lookup: every call inserts
UpsertAlwaysInserts(db, row, market_id, product_id, unit_id, source_id) ==
    [db |-> [db EXCEPT !.price_observations =
                Append(@, NewObservation(row, market_id, product_id, unit_id, source_id))],
     inserted |-> TRUE]

\* returns [db, inserted]: inserted is the method's return value
UpsertPriceObservation(db, row, market_id, product_id, unit_id, source_id) ==
    LET found == FindObservation(db, market_id, product_id, unit_id,
                                 row.period_date, row.price_type)
    IN  IF found # NoId
        THEN [db |-> [db EXCEPT !.price_observations[found] = UpdateObservation(@, row)],
              inserted |-> FALSE]
        ELSE [db |-> [db EXCEPT !.price_observations =
                         Append(@, NewObservation(row, market_id, product_id,
                                                  unit_id, source_id))],
              inserted |-> TRUE]

----------------------------------------------------------------------------
(* sync_dataframe                                                          *)

NoStats == [inserted |-> 0, updated |-> 0, skipped |-> 0, errors |-> 0]

\* the row body ignoring what the upsert returned
ProcessRowCountsInserted(db, nullable, row) ==
    LET m == GetOrCreateMarket(db, nullable, row)
        p == GetOrCreateProduct(m.db, nullable, row)
        u == GetOrCreateUnit(p.db, nullable, row)
        s == GetOrCreateSource(u.db, nullable, row)
        o == UpsertPriceObservation(s.db, row, m.id, p.id, u.id, s.id)
    IN  IF m.raised THEN [db |-> m.db, outcome |-> "errors"]
        ELSE IF p.raised THEN [db |-> p.db, outcome |-> "errors"]
        ELSE IF u.raised THEN [db |-> u.db, outcome |-> "errors"]
        ELSE IF s.raised THEN [db |-> s.db, outcome |-> "errors"]
        ELSE [db |-> o.db, outcome |-> "inserted"]

\* the body of the try block, lines 280-296, for one row: [db, outcome]
ProcessRow(db, nullable, row) ==
    LET m == GetOrCreateMarket(db, nullable, row)
        p == GetOrCreateProduct(m.db, nullable, row)
        u == GetOrCreateUnit(p.db, nullable, row)
        s == GetOrCreateSource(u.db, nullable, row)
        o == UpsertPriceObservation(s.db, row, m.id, p.id, u.id, s.id)
    IN  IF m.raised THEN [db |-> m.db, outcome |-> "errors"]
        ELSE IF p.raised THEN [db |-> p.db, outcome |-> "errors"]
        ELSE IF u.raised THEN [db |-> u.db, outcome |-> "errors"]
        ELSE IF s.raised THEN [db |-> s.db, outcome |-> "errors"]
        ELSE [db |-> o.db, outcome |-> IF o.inserted THEN "inserted" ELSE "updated"]

\* the loop with the try around it instead of inside it: the first failing
\* row ends the loop
RECURSIVE SyncFromUntilError(_, _, _, _, _)
SyncFromUntilError(db, nullable, df, i, stats) ==
    IF i > Len(df) THEN [db |-> db, stats |-> stats]
    ELSE LET r == ProcessRow(db, nullable, df[i])
         IN  IF r.outcome = "errors"
             THEN [db |-> r.db, stats |-> [stats EXCEPT !.errors = @ + 1]]
             ELSE SyncFromUntilError(r.db, nullable, df, i + 1,
                                     [stats EXCEPT ![r.outcome] = @ + 1])

\* the loop of lines 278-301 from row i on: [db, stats]
RECURSIVE SyncFrom(_, _, _, _, _)
SyncFrom(db, nullable, df, i, stats) ==
    IF i > Len(df) THEN [db |-> db, stats |-> stats]
    ELSE LET r == ProcessRow(db, nullable, df[i])
         IN  SyncFrom(r.db, nullable, df, i + 1,
                      [stats EXCEPT ![r.outcome] = @ + 1])

SyncDataframe(db, nullable, df) == SyncFrom(db, nullable, df, 1, NoStats)

----------------------------------------------------------------------------
(* Rows of the API's marketpricefacts answer                               *)

D1 == <<2005, 12, 1>>
D2 == <<2006, 1, 1>>

BaseRow ==
    [market_id |-> "m1", market |-> "Jacmel", product |-> "Rice",
     product_source |-> "FEWS", cpcv2 |-> "R0", unit |-> "kg", unit_type |-> "Weight",
     datasourceorganization |-> "s1", source_organization |-> "CNSA",
     period_date |-> D1, price_type |-> "Retail", value |-> 10,
     exchange_rate |-> 50, common_unit_price |-> 10, common_currency_price |-> 5,
     collection_status |-> "Published", modified |-> "t2"]

\* a revision of the base row (same market, product, unit, month and price
\* type) carrying another market name, another price and an older "modified"
RevisedRow ==
    [BaseRow EXCEPT !.market = "Jacmel, Marche", !.value = 20,
                    !.exchange_rate = 40, !.common_unit_price = 20,
                    !.common_currency_price = 8, !.modified = "t1"]

\* the same series a month later, without a data source and with an
\* unparsable "modified"
LaterRow ==
    [BaseRow EXCEPT !.period_date = D2, !.datasourceorganization = NULL,
                    !.value = 30, !.modified = "n/a"]

\* a row without a market id
NoMarketRow == [BaseRow EXCEPT !.market_id = NULL, !.market = "Hinche"]

\* a row of another market whose product has no source
NoProductSourceRow ==
    [BaseRow EXCEPT !.market_id = "m2", !.market = "Hinche", !.product_source = NULL]

Rows == {BaseRow, RevisedRow, LaterRow, NoMarketRow, NoProductSourceRow}

\* DataFrames of at most n rows
DataFrames(n) == UNION {[1..k -> Rows] : k \in 0..n}

----------------------------------------------------------------------------
(* Calls of the FEWSDatabase methods on an open database                   *)

NoCall == [op |-> "none", df |-> <<>>, ids |-> <<>>, stats |-> NoStats,
           returned |-> FALSE]

NoRun == [op |-> "none", exit |-> 0, tested |-> FALSE, fetched |-> FALSE,
          start_date |-> None, end_date |-> None, stats |-> NoStats,
          synced |-> FALSE, count |-> 0, watermark_before |-> None,
          log_before |-> 0, conn |-> "none", records |-> 0, error |-> NULL]

\* no call of fit_all_models made
NoForecast == [pc |-> "idle"]

NoHttp == [pc |-> "idle", format |-> "json", attempt |-> 0, calls |-> 0,
           slept |-> 0, seen |-> <<>>, result |-> <<>>, exc |-> 0, requests |-> 0]

InitDb ==
    /\ markets = <<>>
    /\ products = <<>>
    /\ units = <<>>
    /\ data_sources = <<>>
    /\ price_observations = <<>>
    /\ import_log = <<>>
    /\ keysNullable \in BOOLEAN
    /\ today = Day0
    /\ call = NoCall
    /\ run = NoRun
    /\ processed = 0
    /\ http = NoHttp
    /\ forecast = NoForecast

SetDb(db) ==
    /\ markets' = db.markets
    /\ products' = db.products
    /\ units' = db.units
    /\ data_sources' = db.data_sources
    /\ price_observations' = db.price_observations

CallSyncDataframe(df) ==
    /\ processed + Len(df) <= MaxTotalRows
    /\ processed' = processed + Len(df)
    /\ LET r == SyncDataframe(TheDb, keysNullable, df)
       IN  /\ SetDb(r.db)
           /\ call' = [op |-> "sync_dataframe", df |-> df, ids |-> <<>>,
                       stats |-> r.stats, returned |-> FALSE]
    /\ UNCHANGED <<import_log, keysNullable, today, run, http, forecast>>

\* a direct call, with the ids of existing dimension rows
CallUpsert(row, market_id, product_id, unit_id, source_id) ==
    /\ processed + 1 <= MaxTotalRows
    /\ processed' = processed + 1
    /\ LET r == UpsertPriceObservation(TheDb, row, market_id, product_id,
                                       unit_id, source_id)
       IN  /\ SetDb(r.db)
           /\ call' = [op |-> "upsert_price_observation", df |-> <<row>>,
                       ids |-> <<market_id, product_id, unit_id, source_id>>,
                       stats |-> NoStats, returned |-> r.inserted]
    /\ UNCHANGED <<import_log, keysNullable, today, run, http, forecast>>

NextDb ==
    \/ \E df \in DataFrames(MaxRows) : CallSyncDataframe(df)
    \/ \E row \in Rows :
          \E m \in 1..Len(markets), p \in 1..Len(products), u \in 1..Len(units),
             s \in 0..Len(data_sources) :
               CallUpsert(row, m, p, u, s)

SpecDb == InitDb /\ [][NextDb]_vars

----------------------------------------------------------------------------
(* import_log                                                              *)

\* log_import binding the two dates to the wrong columns
LogEntrySwapped(records_fetched, stats, start_date, end_date, status, error_message) ==
    [records_fetched |-> records_fetched,
     records_inserted |-> stats.inserted,
     records_updated |-> stats.updated,
     records_skipped |-> stats.skipped,
     date_range_start |-> end_date,
     date_range_end |-> start_date,
     status |-> status,
     error_message |-> error_message]

\* log_import without its error_message parameter
LogEntryWithoutMessage(records_fetched, stats, start_date, end_date, status, error_message) ==
    [records_fetched |-> records_fetched,
     records_inserted |-> stats.inserted,
     records_updated |-> stats.updated,
     records_skipped |-> stats.skipped,
     date_range_start |-> start_date,
     date_range_end |-> end_date,
     status |-> status,
     error_message |-> NULL]

\* log_import: the row it inserts
LogEntry(records_fetched, stats, start_date, end_date, status, error_message) ==
    [records_fetched |-> records_fetched,
     records_inserted |-> stats.inserted,
     records_updated |-> stats.updated,
     records_skipped |-> stats.skipped,
     date_range_start |-> start_date,
     date_range_end |-> end_date,
     status |-> status,
     error_message |-> error_message]

\* the lookup without its WHERE clause: the newest entry of any status
GetLastSyncDateAnyStatus(log) ==
    IF Len(log) = 0 THEN None ELSE log[Len(log)].date_range_end

\* the lookup with ORDER BY import_date ASC: the oldest successful entry
GetLastSyncDateOldest(log) ==
    LET ok == {i \in 1..Len(log) : log[i].status = "success"}
    IN  IF ok = {} THEN None
        ELSE log[CHOOSE i \in ok : \A j \in ok : i <= j].date_range_end

\* get_last_sync_date: date_range_end of the newest entry with status
\* 'success', or None
GetLastSyncDate(log) ==
    LET ok == {i \in 1..Len(log) : log[i].status = "success"}
    IN  IF ok = {} THEN None
        ELSE log[CHOOSE i \in ok : \A j \in ok : j <= i].date_range_end

----------------------------------------------------------------------------
(* sync_fews_db.py: full_sync and incremental_sync                         *)

\* how a call of FEWSNETClient._make_request can end
RequestOutcomes == {"returned", "raised"}

\* str(e) of the exceptions get_market_prices lets through
ErrorTexts == {"Read timed out", "502 Bad Gateway"}

\* test_connection without its except branch turned into an answer: True
\* whatever the request did
TestConnectionAlwaysTrue(outcome) == TRUE

\* test_connection: True when the request returned, False when it raised
TestConnection(outcome) == outcome = "returned"

Run(op, exit, tested, fetched, start_date, end_date, stats, synced) ==
    [op |-> op, exit |-> exit, tested |-> tested, fetched |-> fetched,
     start_date |-> start_date, end_date |-> end_date, stats |-> stats,
     synced |-> synced, count |-> run.count + 1,
     watermark_before |-> GetLastSyncDate(import_log),
     log_before |-> Len(import_log),
     conn |-> "none", records |-> 0, error |-> NULL]

Sync(df) ==
    /\ processed + Len(df) <= MaxTotalRows
    /\ processed' = processed + Len(df)
    /\ SetDb(SyncDataframe(TheDb, keysNullable, df).db)

\* the rows the API answers a sync run with
FetchedRows == {BaseRow, NoMarketRow}

\* what the API does during one run: how the connection test's request ends
\* (conn), how the request of get_market_prices ends (fetch: "returned", or
\* the text of the exception it raised) and the rows it returns (df); a
\* request that is never made, or raises, returns nothing
ApiBehaviours ==
    {[conn |-> "raised", fetch |-> "returned", df |-> <<>>]}
    \cup {[conn |-> "returned", fetch |-> e, df |-> <<>>] : e \in ErrorTexts}
    \cup {[conn |-> "returned", fetch |-> "returned", df |-> d] :
            d \in UNION {[1..k -> FetchedRows] : k \in 0..MaxFetched}}

\* full_sync logging a failed fetch as incremental_sync does
FullSyncLogsFailure(conn, fetch, df) ==
    LET start_date == FirstDate
        end_date == Strftime(today)
        stats == SyncDataframe(TheDb, keysNullable, df).stats
    IN  /\ run.count < MaxRuns
        /\ IF ~TestConnection(conn)
           THEN /\ run' = [Run("full_sync", 1, TRUE, FALSE, None, None, NoStats, FALSE)
                               EXCEPT !.conn = conn]
                /\ UNCHANGED <<dbvars, import_log, processed>>
           ELSE IF fetch # "returned"
           THEN /\ import_log' = Append(import_log,
                       LogEntry(0, NoStats, start_date, end_date, "failed", fetch))
                /\ run' = [Run("full_sync", 1, TRUE, TRUE, start_date, end_date,
                               NoStats, FALSE)
                               EXCEPT !.conn = conn, !.error = fetch]
                /\ UNCHANGED <<dbvars, processed>>
           ELSE IF Len(df) = 0
           THEN /\ run' = [Run("full_sync", 0, TRUE, TRUE, start_date, end_date,
                               NoStats, FALSE)
                               EXCEPT !.conn = conn]
                /\ UNCHANGED <<dbvars, import_log, processed>>
           ELSE /\ Sync(df)
                /\ import_log' = Append(import_log,
                       LogEntry(Len(df), stats, start_date, end_date, "success", NULL))
                /\ run' = [Run("full_sync", 0, TRUE, TRUE, start_date, end_date,
                               stats, TRUE)
                               EXCEPT !.conn = conn, !.records = Len(df)]
        /\ UNCHANGED <<keysNullable, today, call, http, forecast>>

FullSync(conn, fetch, df) ==
    LET start_date == FirstDate
        end_date == Strftime(today)
        stats == SyncDataframe(TheDb, keysNullable, df).stats
    IN  /\ run.count < MaxRuns
        /\ IF ~TestConnection(conn)
           THEN /\ run' = [Run("full_sync", 1, TRUE, FALSE, None, None, NoStats, FALSE)
                               EXCEPT !.conn = conn]
                /\ UNCHANGED <<dbvars, import_log, processed>>
           ELSE IF fetch # "returned"
           THEN /\ run' = [Run("full_sync", 1, TRUE, TRUE, start_date, end_date,
                               NoStats, FALSE)
                               EXCEPT !.conn = conn, !.error = fetch]
                /\ UNCHANGED <<dbvars, import_log, processed>>
           ELSE IF Len(df) = 0
           THEN /\ run' = [Run("full_sync", 0, TRUE, TRUE, start_date, end_date,
                               NoStats, FALSE)
                               EXCEPT !.conn = conn]
                /\ UNCHANGED <<dbvars, import_log, processed>>
           ELSE /\ Sync(df)
                /\ import_log' = Append(import_log,
                       LogEntry(Len(df), stats, start_date, end_date, "success", NULL))
                /\ run' = [Run("full_sync", 0, TRUE, TRUE, start_date, end_date,
                               stats, TRUE)
                               EXCEPT !.conn = conn, !.records = Len(df)]
        /\ UNCHANGED <<keysNullable, today, call, http, forecast>>

\* incremental_sync returning on an empty answer as full_sync does, without
\* a log entry
IncrementalSyncSilentWhenEmpty(conn, fetch, df) ==
    LET last_sync == GetLastSyncDate(import_log)
        start_date == IF last_sync # None
                      THEN Strftime(NextDay(Strptime(last_sync)))
                      ELSE FirstDate
        end_date == Strftime(today)
        stats == SyncDataframe(TheDb, keysNullable, df).stats
    IN  /\ run.count < MaxRuns
        /\ IF StrGreater(start_date, end_date)
           THEN /\ run' = Run("incremental_sync", 0, FALSE, FALSE, start_date,
                              end_date, NoStats, FALSE)
                /\ UNCHANGED <<dbvars, import_log, processed>>
           ELSE IF ~TestConnection(conn)
           THEN /\ run' = [Run("incremental_sync", 1, TRUE, FALSE, start_date,
                               end_date, NoStats, FALSE)
                               EXCEPT !.conn = conn]
                /\ UNCHANGED <<dbvars, import_log, processed>>
           ELSE IF fetch # "returned"
           THEN /\ import_log' = Append(import_log,
                       LogEntry(0, NoStats, start_date, end_date, "failed", fetch))
                /\ run' = [Run("incremental_sync", 1, TRUE, TRUE, start_date,
                               end_date, NoStats, FALSE)
                               EXCEPT !.conn = conn, !.error = fetch]
                /\ UNCHANGED <<dbvars, processed>>
           ELSE IF Len(df) = 0
           THEN /\ run' = [Run("incremental_sync", 0, TRUE, TRUE, start_date,
                               end_date, NoStats, FALSE)
                               EXCEPT !.conn = conn]
                /\ UNCHANGED <<dbvars, import_log, processed>>
           ELSE /\ Sync(df)
                /\ import_log' = Append(import_log,
                       LogEntry(Len(df), stats, start_date, end_date, "success", NULL))
                /\ run' = [Run("incremental_sync", 0, TRUE, TRUE, start_date,
                               end_date, stats, TRUE)
                               EXCEPT !.conn = conn, !.records = Len(df)]
        /\ UNCHANGED <<keysNullable, today, call, http, forecast>>

IncrementalSync(conn, fetch, df) ==
    LET last_sync == GetLastSyncDate(import_log)
        start_date == IF last_sync # None
                      THEN Strftime(NextDay(Strptime(last_sync)))
                      ELSE FirstDate
        end_date == Strftime(today)
        stats == SyncDataframe(TheDb, keysNullable, df).stats
    IN  /\ run.count < MaxRuns
        /\ IF StrGreater(start_date, end_date)
           THEN /\ run' = Run("incremental_sync", 0, FALSE, FALSE, start_date,
                              end_date, NoStats, FALSE)
                /\ UNCHANGED <<dbvars, import_log, processed>>
           ELSE IF ~TestConnection(conn)
           THEN /\ run' = [Run("incremental_sync", 1, TRUE, FALSE, start_date,
                               end_date, NoStats, FALSE)
                               EXCEPT !.conn = conn]
                /\ UNCHANGED <<dbvars, import_log, processed>>
           ELSE IF fetch # "returned"
           THEN /\ import_log' = Append(import_log,
                       LogEntry(0, NoStats, start_date, end_date, "failed", fetch))
                /\ run' = [Run("incremental_sync", 1, TRUE, TRUE, start_date,
                               end_date, NoStats, FALSE)
                               EXCEPT !.conn = conn, !.error = fetch]
                /\ UNCHANGED <<dbvars, processed>>
           ELSE IF Len(df) = 0
           THEN /\ import_log' = Append(import_log,
                       LogEntry(0, NoStats, start_date, end_date, "success", NULL))
                /\ run' = [Run("incremental_sync", 0, TRUE, TRUE, start_date,
                               end_date, NoStats, FALSE)
                               EXCEPT !.conn = conn]
                /\ UNCHANGED <<dbvars, processed>>
           ELSE /\ Sync(df)
                /\ import_log' = Append(import_log,
                       LogEntry(Len(df), stats, start_date, end_date, "success", NULL))
                /\ run' = [Run("incremental_sync", 0, TRUE, TRUE, start_date,
                               end_date, stats, TRUE)
                               EXCEPT !.conn = conn, !.records = Len(df)]
        /\ UNCHANGED <<keysNullable, today, call, http, forecast>>

\* midnight passes between two runs
Tick ==
    /\ today # AddDays(Day0, MaxTicks)
    /\ today' = NextDay(today)
    /\ UNCHANGED <<dbvars, import_log, keysNullable, call, run, processed, http, forecast>>

Init ==
    /\ InitDb

Next ==
    \/ \E api \in ApiBehaviours : FullSync(api.conn, api.fetch, api.df)
    \/ \E api \in ApiBehaviours : IncrementalSync(api.conn, api.fetch, api.df)
    \/ Tick

Spec == Init /\ [][Next]_vars

----------------------------------------------------------------------------
(* fewsnet_haiti_downloader.py: FEWSNETClient._make_request                *)

MAX_RETRIES == 3

\* what one session.get plus raise_for_status and the decoding can do: answer
\* with a body, time out, or raise another RequestException
Bodies == {"b1", "b2"}
GetOutcomes ==
    {[kind |-> "ok", body |-> b] : b \in Bodies}
    \cup {[kind |-> "timeout", body |-> NULL], [kind |-> "error", body |-> NULL]}

\* the except branches retrying one attempt too long
RetryOrRaiseOffByOne(h, outcome) ==
    IF h.attempt < MAX_RETRIES
    THEN [h EXCEPT !.slept = @ + (h.attempt + 1) *
                                 (IF outcome.kind = "timeout" THEN 10 ELSE 5),
                   !.attempt = @ + 1,
                   !.pc = IF h.attempt + 1 < MAX_RETRIES THEN "running"
                          ELSE "fell_through"]
    ELSE [h EXCEPT !.pc = "raised", !.exc = h.attempt + 1]

\* the two except branches, lines 71-84: sleep and go round again, or re-raise;
\* a loop that runs out of attempts falls through to the end of the method
RetryOrRaise(h, outcome) ==
    IF h.attempt < MAX_RETRIES - 1
    THEN [h EXCEPT !.slept = @ + (h.attempt + 1) *
                                 (IF outcome.kind = "timeout" THEN 10 ELSE 5),
                   !.attempt = @ + 1,
                   !.pc = IF h.attempt + 1 < MAX_RETRIES THEN "running"
                          ELSE "fell_through"]
    ELSE [h EXCEPT !.pc = "raised", !.exc = h.attempt + 1]

\* one iteration of the loop of lines 63-84
MakeRequestIteration(h, outcome) ==
    LET h1 == [h EXCEPT !.calls = @ + 1, !.seen = Append(@, outcome)]
    IN  IF outcome.kind = "ok"
        THEN [h1 EXCEPT !.pc = "returned", !.result = <<h.format, outcome.body>>]
        ELSE RetryOrRaise(h1, outcome)

\* a caller enters _make_request
StartRequest(format) ==
    /\ http.pc # "running"
    /\ http.requests < MaxRequests
    /\ http' = [pc |-> "running", format |-> format, attempt |-> 0, calls |-> 0,
                slept |-> 0, seen |-> <<>>, result |-> <<>>, exc |-> 0,
                requests |-> http.requests + 1]
    /\ UNCHANGED <<dbvars, import_log, keysNullable, today, call, run, processed, forecast>>

\* the loop goes round once
Attempt(outcome) ==
    /\ http.pc = "running"
    /\ http' = MakeRequestIteration(http, outcome)
    /\ UNCHANGED <<dbvars, import_log, keysNullable, today, call, run, processed, forecast>>

NextHttp ==
    \/ \E format \in {"json", "csv"} : StartRequest(format)
    \/ \E outcome \in GetOutcomes : Attempt(outcome)

SpecHttp == InitDb /\ [][NextHttp]_vars

\* session.get is called with a timeout, so an attempt always ends
SpecHttpFair == SpecHttp /\ WF_vars(\E outcome \in GetOutcomes : Attempt(outcome))

----------------------------------------------------------------------------
(* dashboard/forecasting.py: check_data_availability and fit_all_models    *)
(* A row of the query result is [date, market_name]; the price column,     *)
(* never NULL in the result, decides neither who is fitted nor the counts. *)

\* the market names of the query result, in the order of ORDER BY m.name
MarketNames == <<"Hinche", "Jacmel", "Market Average">>

\* the period dates of the query result
PriceDates == {<<2021, 1, 1>>, <<2021, 2, 1>>, <<2021, 3, 1>>, <<2021, 7, 1>>}

RECURSIVE DaysBeforeMonth(_, _)
DaysBeforeMonth(y, m) ==
    IF m = 1 THEN 0 ELSE DaysBeforeMonth(y, m - 1) + DaysInMonth(y, m - 1)

\* the day number of a date, as date.toordinal()
Ordinal(d) ==
    365 * (d[1] - 1) + ((d[1] - 1) \div 4) - ((d[1] - 1) \div 100)
        + ((d[1] - 1) \div 400) + DaysBeforeMonth(d[1], d[2]) + d[3]

NameIndex(name) == CHOOSE i \in 1..Len(MarketNames) : MarketNames[i] = name

\* ORDER BY m.name, po.period_date
InQueryOrder(a, b) ==
    \/ NameIndex(a.market_name) < NameIndex(b.market_name)
    \/ /\ a.market_name = b.market_name
       /\ Ordinal(a.date) <= Ordinal(b.date)

\* get_price_data: the DataFrames the query can return
QueryResults ==
    LET rows == {[date |-> d, market_name |-> MarketNames[i]] :
                    d \in PriceDates, i \in 1..Len(MarketNames)}
    IN  {df \in UNION {[1..k -> rows] : k \in 0..MaxObs} :
            \A i \in 1..(Len(df) - 1) : InQueryOrder(df[i], df[i + 1])}

\* df['market_name'].unique()
UniqueMarkets(df) == {df[i].market_name : i \in 1..Len(df)}

\* df[df['market_name'] == market_name], as the positions of its rows
MarketRows(df, market_name) == {i \in 1..Len(df) : df[i].market_name = market_name}

\* (market_df['date'].max() - market_df['date'].min()).days
SpanDays(df, market_name) ==
    LET days == {Ordinal(df[i].date) : i \in MarketRows(df, market_name)}
    IN  (CHOOSE x \in days : \A y \in days : y <= x)
            - (CHOOSE x \in days : \A y \in days : x <= y)

\* n_obs >= min_months and days / 30.44 >= min_months; no multiple of 30.44
\* below 761 is a whole number, so the division is never near a tie here
Sufficient(n_obs, days, min_months) ==
    n_obs >= min_months /\ 100 * days >= 3044 * min_months

CheckDataAvailability(df, min_months) ==
    [market_name \in UniqueMarkets(df) |->
        LET n_obs == Cardinality(MarketRows(df, market_name))
        IN  [n_observations |-> n_obs,
             sufficient |-> Sufficient(n_obs, SpanDays(df, market_name), min_months)]]

\* fit_prophet_model: Prophet fits, or raises and the except branch answers
FitProphetModel(df, market_name, raises) ==
    [market_name |-> market_name,
     success |-> ~raises,
     n_observations |->
        IF raises THEN Cardinality(MarketRows(df, market_name))
        ELSE Cardinality({df[i].date : i \in MarketRows(df, market_name)})]

\* fit_market_average_model: one point per date of the available markets
FitMarketAverageModel(df, available_markets, raises) ==
    [market_name |-> "Market Average",
     success |-> ~raises,
     n_observations |->
        IF raises THEN 0
        ELSE Cardinality({df[i].date : i \in
                 {j \in 1..Len(df) : df[j].market_name \in available_markets}})]

\* fit_all_models after the query: [results, availability, fitted], fitted
\* being the names fit_prophet_model was called with; failing is the set of
\* fits in which Prophet raises
FitAllModels(df, min_months, failing) ==
    LET availability == CheckDataAvailability(df, min_months)
        available_markets == {m \in DOMAIN availability : availability[m].sufficient}
        keys == available_markets \cup
                    (IF available_markets # {} THEN {"Market Average"} ELSE {})
    IN  IF Len(df) = 0
        THEN [results |-> <<>>, availability |-> <<>>, fitted |-> {}]
        ELSE [results |->
                 [k \in keys |->
                     IF k = "Market Average"
                     THEN FitMarketAverageModel(df, available_markets, "average" \in failing)
                     ELSE FitProphetModel(df, k, k \in failing)],
              availability |-> availability,
              fitted |-> available_markets]

\* the dashboard has called fit_all_models and the query has answered
InitForecast ==
    /\ markets = <<>>
    /\ products = <<>>
    /\ units = <<>>
    /\ data_sources = <<>>
    /\ price_observations = <<>>
    /\ import_log = <<>>
    /\ keysNullable \in BOOLEAN
    /\ today = Day0
    /\ call = NoCall
    /\ run = NoRun
    /\ processed = 0
    /\ http = NoHttp
    /\ forecast \in {[pc |-> "called", df |-> df, min_months |-> n] :
                        df \in QueryResults, n \in 1..MaxMinMonths}

\* the rest of fit_all_models
FitAllModelsReturns(failing) ==
    /\ forecast.pc = "called"
    /\ LET r == FitAllModels(forecast.df, forecast.min_months, failing)
       IN  forecast' = [pc |-> "returned", df |-> forecast.df,
                        min_months |-> forecast.min_months,
                        results |-> r.results, availability |-> r.availability,
                        fitted |-> r.fitted]
    /\ UNCHANGED <<dbvars, import_log, keysNullable, today, call, run, processed, http>>

NextForecast ==
    \E failing \in SUBSET {"Hinche", "Jacmel", "Market Average", "average"} :
        FitAllModelsReturns(failing)

SpecForecast == InitForecast /\ [][NextForecast]_vars

----------------------------------------------------------------------------
(* Vocabulary of the properties                                            *)

\* the natural key of a stored observation, as the table holds it
ObsKey(o) == <<o.market_id, o.product_id, o.unit_id, o.period_date, o.price_type>>

\* the natural identifiers an API row carries
RowKey(row) == <<row.market_id, row.product, row.product_source, row.unit,
                row.period_date, row.price_type>>

\* the natural identifiers of a stored observation, through its dimension rows
StoredKey(db, o) ==
    <<db.markets[o.market_id].fews_id, db.products[o.product_id].name,
      db.products[o.product_id].product_source, db.units[o.unit_id].name,
      o.period_date, o.price_type>>

StoredKeys(db) ==
    {StoredKey(db, db.price_observations[i]) : i \in 1..Len(db.price_observations)}

\* a row all of whose dimension keys are present
Complete(row) == NULL \notin {row.market_id, row.product, row.product_source, row.unit}

\* the last complete row of df with the natural identifiers of df[i] is df[i]
LastOfKey(df, i) ==
    /\ Complete(df[i])
    /\ \A j \in (i + 1)..Len(df) : Complete(df[j]) => RowKey(df[j]) # RowKey(df[i])

\* what is stored of "modified": the timestamp, or NULL when there is none
StoredModified(row) == IF row.modified \in {"t1", "t2"} THEN row.modified ELSE NULL

IsSync == call.op = "sync_dataframe"
IsUpsert == call.op = "upsert_price_observation"

\* the key a direct upsert call looked up
CallKey(c) == <<c.ids[1], c.ids[2], c.ids[3], c.df[1].period_date, c.df[1].price_type>>

NumObs == Len(price_observations)

----------------------------------------------------------------------------
(* C1: price_observations holds at most one row per natural key            *)
(* (market_id, product_id, unit_id, period_date, price_type); a direct     *)
(* upsert adds exactly one row when its key is absent and none when it is  *)
(* present, and sync_dataframe adds exactly one row per natural key of its *)
(* complete rows that was not stored before.                               *)

UniqueKeys ==
    \A i, j \in 1..NumObs :
        ObsKey(price_observations[i]) = ObsKey(price_observations[j]) => i = j

C1_Step ==
    /\ UniqueKeys'
    /\ (IsUpsert' /\ processed' # processed) =>
          NumObs' = NumObs +
             (IF \E i \in 1..NumObs : ObsKey(price_observations[i]) = CallKey(call')
              THEN 0 ELSE 1)
    /\ (IsSync' /\ processed' # processed) =>
          LET new == {RowKey(call'.df[i]) :
                        i \in {k \in 1..Len(call'.df) : Complete(call'.df[k])}}
          IN  /\ StoredKeys(TheDb') = StoredKeys(TheDb) \cup new
              /\ NumObs' = NumObs + Cardinality(new \ StoredKeys(TheDb))

C1_OneRowPerKey == [][C1_Step]_vars

\* a direct upsert found its key and added nothing, beside another key's row
C1_Witness == IsUpsert /\ ~call.returned /\ NumObs = 2

----------------------------------------------------------------------------
(* C5: an upsert that finds its key overwrites value, exchange_rate,       *)
(* common_unit_price, common_currency_price, collection_status and         *)
(* api_modified_at with the incoming row's, whatever the stored and the    *)
(* incoming "modified" are; after sync_dataframe the stored values of a    *)
(* key are those of the last complete row of the DataFrame with that key.  *)

Carries(o, row) ==
    /\ o.value = row.value
    /\ o.exchange_rate = row.exchange_rate
    /\ o.common_unit_price = row.common_unit_price
    /\ o.common_currency_price = row.common_currency_price
    /\ o.collection_status = row.collection_status
    /\ o.api_modified_at = StoredModified(row)

C5_LastRowWins ==
    /\ IsUpsert =>
          \E i \in 1..NumObs :
              /\ ObsKey(price_observations[i]) = CallKey(call)
              /\ Carries(price_observations[i], call.df[1])
    /\ IsSync =>
          \A i \in 1..Len(call.df) :
              LastOfKey(call.df, i) =>
                 \E k \in 1..NumObs :
                     /\ StoredKey(TheDb, price_observations[k]) = RowKey(call.df[i])
                     /\ Carries(price_observations[k], call.df[i])

\* a DataFrame whose later row for a key is the older revision, now stored
C5_Witness ==
    /\ IsSync
    /\ \E i, j \in 1..Len(call.df) :
          /\ i < j
          /\ call.df[i] = BaseRow
          /\ call.df[j] = RevisedRow
          /\ LastOfKey(call.df, j)
    /\ \E k \in 1..NumObs : price_observations[k].api_modified_at = "t1"

----------------------------------------------------------------------------
(* C6: upsert_price_observation returns True exactly when it inserted, and *)
(* a call that returns False has left the stored rows as they were.        *)

C6_Step ==
    (IsUpsert' /\ processed' # processed) =>
        /\ call'.returned <=> NumObs' = NumObs + 1
        /\ ~call'.returned => price_observations' = price_observations

C6_FalseMeansSkipped == [][C6_Step]_vars

----------------------------------------------------------------------------
(* C7: the counts sync_dataframe returns add up to the number of rows of   *)
(* the DataFrame; inserted is the number of rows the call added to         *)
(* price_observations, updated the number of rows whose natural key was    *)
(* stored already when the row was processed.                              *)

C7_Step ==
    (IsSync' /\ processed' # processed) =>
        LET df == call'.df
            st == call'.stats
            before == StoredKeys(TheDb)
            matched == {i \in 1..Len(df) :
                          /\ Complete(df[i])
                          /\ \/ RowKey(df[i]) \in before
                             \/ \E j \in 1..(i - 1) :
                                   Complete(df[j]) /\ RowKey(df[j]) = RowKey(df[i])}
        IN  /\ st.inserted + st.updated + st.skipped + st.errors = Len(df)
            /\ st.inserted = NumObs' - NumObs
            /\ st.updated = Cardinality(matched)

C7_CountsAddUp == [][C7_Step]_vars

\* a call that inserted, updated and failed on a row each
C7_Witness ==
    /\ IsSync
    /\ call.stats.inserted >= 1
    /\ call.stats.updated >= 1
    /\ call.stats.errors >= 1

----------------------------------------------------------------------------
(* C8: a synced row whose market is stored already updates the stored      *)
(* market row: after sync_dataframe the markets row of a fews_id carries   *)
(* the name of the last row of the DataFrame with that market_id.          *)

C8_DimensionsUpdated ==
    IsSync =>
        \A i \in 1..Len(call.df) :
            (/\ call.df[i].market_id # NULL
             /\ \A j \in (i + 1)..Len(call.df) :
                   call.df[j].market_id # call.df[i].market_id)
            => \E m \in 1..Len(markets) :
                   /\ markets[m].fews_id = call.df[i].market_id
                   /\ markets[m].name = call.df[i].market

----------------------------------------------------------------------------
(* C10: a row that raises is counted in errors and nothing is rolled back: *)
(* every complete row of the DataFrame, before or after a failing one, is  *)
(* stored, the market row created for a failing row stays, and the call    *)
(* returns its counts.                                                     *)

C10_NoBatching ==
    IsSync =>
        /\ call.stats.errors =
              Cardinality({i \in 1..Len(call.df) : ~Complete(call.df[i])})
        /\ \A i \in 1..Len(call.df) :
              /\ Complete(call.df[i]) => RowKey(call.df[i]) \in StoredKeys(TheDb)
              /\ call.df[i].market_id # NULL =>
                    \E m \in 1..Len(markets) : markets[m].fews_id = call.df[i].market_id

\* a failing row that created its market, followed by a row that was stored
C10_Witness ==
    /\ IsSync
    /\ call.df = <<NoProductSourceRow, BaseRow>>
    /\ call.stats.errors = 1
    /\ NumObs = 1
    /\ \E m \in 1..Len(markets) : markets[m].fews_id = "m2"

----------------------------------------------------------------------------
(* C2: the window incremental_sync requests starts the day after the       *)
(* date_range_end of the newest import_log entry with status 'success',    *)
(* whatever failed entries follow it, or on 2005-01-01 when there is no    *)
(* such entry, and ends on the current day.                                *)

IsIncremental == run.op = "incremental_sync"

Successes(n) == {i \in 1..n : import_log[i].status = "success"}

Newest(ids) == CHOOSE i \in ids : \A j \in ids : j <= i

C2_Step ==
    (run' # run /\ IsIncremental' /\ run'.fetched) =>
        LET ok == Successes(Len(import_log))
        IN  /\ Strptime(run'.end_date) = today
            /\ ok = {} => run'.start_date = <<2, 0, 0, 5, 0, 1, 0, 1>>
            /\ ok # {} =>
                  Strptime(run'.start_date) =
                     NextDay(Strptime(import_log[Newest(ok)].date_range_end))

C2_WindowFromWatermark == [][C2_Step]_vars

\* an incremental run fetched although the newest entry it found was a failed
\* one, behind a successful one
C2_Witness ==
    /\ IsIncremental
    /\ run.fetched
    /\ run.log_before >= 2
    /\ import_log[run.log_before].status = "failed"
    /\ Successes(run.log_before) # {}

----------------------------------------------------------------------------
(* C3: a run that ends with exit status 1 (the connection test failed or   *)
(* the fetch raised) leaves get_last_sync_date as it found it.             *)

C3_FailedRunKeepsWatermark ==
    run.exit = 1 => GetLastSyncDate(import_log) = run.watermark_before

\* an incremental run whose fetch raised, after an earlier successful run
C3_Witness ==
    /\ IsIncremental
    /\ run.exit = 1
    /\ run.fetched
    /\ run.watermark_before # None
    /\ import_log[Len(import_log)].status = "failed"

----------------------------------------------------------------------------
(* C4: an import_log entry with status 'success' is written only for a    *)
(* window all of whose fetched rows were stored: its records_fetched is    *)
(* its records_inserted plus its records_updated.                          *)

C4_SuccessMeansAllStored ==
    \A i \in 1..Len(import_log) :
        import_log[i].status = "success" =>
            import_log[i].records_fetched =
                import_log[i].records_inserted + import_log[i].records_updated

----------------------------------------------------------------------------
(* C9: _make_request ends after at most MAX_RETRIES calls of session.get:  *)
(* it returns the body of the first attempt that succeeds and makes no     *)
(* further attempt, re-raises the exception of the last attempt when       *)
(* MAX_RETRIES attempts have failed, and never leaves the loop otherwise.  *)

Failed(outcome) == outcome.kind \in {"timeout", "error"}

C9_Safe ==
    /\ http.calls = Len(http.seen)
    /\ http.calls <= 3
    /\ http.pc # "fell_through"
    /\ http.pc = "running" =>
          /\ http.calls < 3
          /\ \A i \in 1..http.calls : Failed(http.seen[i])
    /\ http.pc = "returned" =>
          /\ http.calls >= 1
          /\ \A i \in 1..(http.calls - 1) : Failed(http.seen[i])
          /\ http.seen[http.calls].kind = "ok"
          /\ http.result = <<http.format, http.seen[http.calls].body>>
    /\ http.pc = "raised" =>
          /\ http.calls = 3
          /\ \A i \in 1..3 : Failed(http.seen[i])
          /\ http.exc = 3

C9_Terminates ==
    /\ []C9_Safe
    /\ (http.pc = "running") ~> (http.pc \in {"returned", "raised"})

\* a request that returned on its third attempt, and one that raised
C9_Witness ==
    \/ http.pc = "returned" /\ http.calls = 3 /\ http.requests = 2
    \/ http.pc = "raised" /\ http.requests = 2

----------------------------------------------------------------------------
(* C11: when the day after the watermark lies after the current day,       *)
(* incremental_sync makes no API request (neither the connection test nor  *)
(* the fetch), appends no import_log entry, leaves price_observations and  *)
(* the dimension tables as they are and ends with status 0; every window   *)
(* it does request has start_date <= end_date.                             *)

\* a <= b on dates
DateLeq(a, b) ==
    \/ a[1] < b[1]
    \/ a[1] = b[1] /\ a[2] < b[2]
    \/ a[1] = b[1] /\ a[2] = b[2] /\ a[3] <= b[3]

\* the watermark the run starts from is the current day or a later one
UpToDate ==
    LET last_sync == GetLastSyncDate(import_log)
    IN  last_sync # None /\ DateLeq(today, Strptime(last_sync))

C11_Step ==
    (run' # run /\ IsIncremental') =>
        /\ UpToDate =>
              /\ ~run'.tested
              /\ ~run'.fetched
              /\ run'.exit = 0
              /\ import_log' = import_log
              /\ UNCHANGED dbvars
        /\ (run'.tested \/ run'.fetched) =>
              DateLeq(Strptime(run'.start_date), Strptime(run'.end_date))

C11_UpToDateDoesNothing == [][C11_Step]_vars

\* an incremental run that found the watermark on the current day and made no
\* request, after a run that stored rows
C11_Witness ==
    /\ IsIncremental
    /\ ~run.tested
    /\ run.exit = 0
    /\ run.watermark_before = Strftime(today)
    /\ NumObs >= 1

----------------------------------------------------------------------------
(* C12: when sync_dataframe is called twice in a row with the same         *)
(* DataFrame, whose rows have pairwise distinct natural keys and raise no  *)
(* row error, the second call leaves price_observations with the natural   *)
(* keys and the stored values the first call left, and reports             *)
(* inserted = 0 and updated = the number of rows.                          *)

DistinctKeys(df) ==
    \A i, j \in 1..Len(df) : i # j => RowKey(df[i]) # RowKey(df[j])

\* this step is a second call with the DataFrame of the call before it
SameAgain ==
    /\ IsSync
    /\ IsSync'
    /\ processed' # processed
    /\ call'.df = call.df
    /\ DistinctKeys(call.df)
    /\ call.stats.errors = 0
    /\ call'.stats.errors = 0

C12_Step ==
    SameAgain =>
        /\ StoredKeys(TheDb)' = StoredKeys(TheDb)
        /\ price_observations' = price_observations
        /\ call'.stats.inserted = 0
        /\ call'.stats.updated = Len(call.df)

----------------------------------------------------------------------------
(* C13: when the fetch raises in incremental_sync, the run appends exactly *)
(* one import_log entry, with status 'failed', records_fetched 0,          *)
(* inserted, updated and skipped 0 and the text of the exception as        *)
(* error_message, leaves price_observations and the dimension tables as    *)
(* they are and exits with status 1.                                       *)

C13_Step ==
    (run' # run /\ IsIncremental' /\ run'.error # NULL) =>
        /\ Len(import_log') = Len(import_log) + 1
        /\ SubSeq(import_log', 1, Len(import_log)) = import_log
        /\ LET e == import_log'[Len(import_log')]
           IN  /\ e.status = "failed"
               /\ e.records_fetched = 0
               /\ e.records_inserted = 0
               /\ e.records_updated = 0
               /\ e.records_skipped = 0
               /\ e.error_message = run'.error
               /\ e.error_message \in ErrorTexts
        /\ UNCHANGED dbvars
        /\ run'.exit = 1

C13_FetchErrorLogged == [][C13_Step]_vars

\* two incremental runs whose fetches raised different exceptions, after a
\* run that stored a row
C13_Witness ==
    /\ IsIncremental
    /\ run.error = "502 Bad Gateway"
    /\ run.exit = 1
    /\ NumObs >= 1
    /\ Len(import_log) = 3
    /\ import_log[2].status = "failed"
    /\ import_log[2].error_message = "Read timed out"
    /\ import_log[3].status = "failed"
    /\ import_log[3].error_message = "502 Bad Gateway"

----------------------------------------------------------------------------
(* C14: after any sequence of sync_dataframe calls, markets has at most    *)
(* one row per fews_id, products at most one row per (name,                *)
(* product_source), units at most one row per name and data_sources at     *)
(* most one row per fews_id, and each helper returns the id of that single *)
(* row for every input row, a row whose key field is missing included.     *)

\* no two rows of a dimension table carry the same key, a missing key being
\* a key like any other
OneRowPerKey ==
    /\ \A i, j \in 1..Len(markets) :
          markets[i].fews_id = markets[j].fews_id => i = j
    /\ \A i, j \in 1..Len(products) :
          (/\ products[i].name = products[j].name
           /\ products[i].product_source = products[j].product_source) => i = j
    /\ \A i, j \in 1..Len(units) : units[i].name = units[j].name => i = j
    /\ \A i, j \in 1..Len(data_sources) :
          data_sources[i].fews_id = data_sources[j].fews_id => i = j

\* called on a row the last call has processed, each helper returns the id
\* of the stored row with the key of that row, and adds nothing
ReturnsStoredId(row) ==
    LET m == GetOrCreateMarket(TheDb, keysNullable, row)
        p == GetOrCreateProduct(TheDb, keysNullable, row)
        u == GetOrCreateUnit(TheDb, keysNullable, row)
        s == GetOrCreateSource(TheDb, keysNullable, row)
    IN  /\ ~m.raised /\ m.db = TheDb /\ m.id # NoId
        /\ markets[m.id].fews_id = row.market_id
        /\ ~p.raised /\ p.db = TheDb /\ p.id # NoId
        /\ products[p.id].name = row.product
        /\ products[p.id].product_source = row.product_source
        /\ ~u.raised /\ u.db = TheDb /\ u.id # NoId
        /\ units[u.id].name = row.unit
        /\ ~s.raised /\ s.db = TheDb
        /\ row.datasourceorganization # NULL =>
              /\ s.id # NoId
              /\ data_sources[s.id].fews_id = row.datasourceorganization

C14_OneRowPerAnyKey ==
    /\ OneRowPerKey
    /\ IsSync => \A k \in 1..Len(call.df) : ReturnsStoredId(call.df[k])

\* the same, for the rows all of whose key fields are present
C14_PresentKeys ==
    /\ \A i, j \in 1..Len(markets) :
          (markets[i].fews_id # NULL /\ markets[i].fews_id = markets[j].fews_id)
              => i = j
    /\ \A i, j \in 1..Len(products) :
          (/\ NULL \notin {products[i].name, products[i].product_source}
           /\ products[i].name = products[j].name
           /\ products[i].product_source = products[j].product_source) => i = j
    /\ \A i, j \in 1..Len(units) : units[i].name = units[j].name => i = j
    /\ \A i, j \in 1..Len(data_sources) :
          data_sources[i].fews_id = data_sources[j].fews_id => i = j
    /\ IsSync => \A k \in 1..Len(call.df) :
          Complete(call.df[k]) => ReturnsStoredId(call.df[k])

\* two market rows without a fews_id, left by two rows that had none
C14_TwoNullMarkets ==
    \E i, j \in 1..Len(markets) :
        i # j /\ markets[i].fews_id = NULL /\ markets[j].fews_id = NULL

----------------------------------------------------------------------------
(* C15: every import_log entry with status 'success' that incremental_sync *)
(* writes starts the day after the date_range_end of the successful entry  *)
(* before it, or on 2005-01-01 when there is none; so the windows of the   *)
(* successful entries leave no day between 2005-01-01 and the watermark    *)
(* uncovered.                                                              *)

\* the first successful window starts on 2005-01-01, every later one starts
\* no later than the day after an earlier one ended, and none ends after the
\* newest one
NoGap ==
    LET ok == Successes(Len(import_log))
    IN  \A i \in ok :
            LET before == {j \in ok : j < i}
                starts == Strptime(import_log[i].date_range_start)
            IN  /\ before = {} => starts = <<2005, 1, 1>>
                /\ before # {} =>
                      \E j \in before :
                          DateLeq(starts, NextDay(Strptime(import_log[j].date_range_end)))
                /\ DateLeq(Strptime(import_log[i].date_range_end),
                           Strptime(import_log[Newest(ok)].date_range_end))

C15_Step ==
    (/\ run' # run /\ IsIncremental'
     /\ Len(import_log') = Len(import_log) + 1
     /\ import_log'[Len(import_log')].status = "success") =>
        LET ok == Successes(Len(import_log))
            starts == Strptime(import_log'[Len(import_log')].date_range_start)
        IN  /\ ok = {} => starts = <<2005, 1, 1>>
            /\ ok # {} =>
                  starts = NextDay(Strptime(import_log[Newest(ok)].date_range_end))

C15_Contiguous == []NoGap /\ [][C15_Step]_vars

\* a successful entry for 2006-01-01 alone, written by an incremental run
\* after a failed entry and a successful one that ended on 2005-12-31
C15_Witness ==
    /\ IsIncremental
    /\ Len(import_log) = 3
    /\ import_log[1].status = "success"
    /\ import_log[1].date_range_end = Strftime(<<2005, 12, 31>>)
    /\ import_log[2].status = "failed"
    /\ import_log[3].status = "success"
    /\ import_log[3].date_range_start = Strftime(<<2006, 1, 1>>)
    /\ import_log[3].date_range_end = Strftime(<<2006, 1, 1>>)

----------------------------------------------------------------------------
(* C16: with a clock that does not go back, the value get_last_sync_date   *)
(* returns after a run of full_sync or incremental_sync (succeeding,       *)
(* failing or finding nothing to do) is greater than or equal to the value *)
(* it returned before the run; None comes before every date.               *)

WatermarkLeq(a, b) ==
    \/ a = None
    \/ b # None /\ DateLeq(Strptime(a), Strptime(b))

C16_Step ==
    WatermarkLeq(GetLastSyncDate(import_log), GetLastSyncDate(import_log'))

C16_WatermarkMonotone == [][C16_Step]_vars

\* a third run that left the watermark where the second, a day after the
\* first, had moved it to
C16_Witness ==
    /\ run.count = 3
    /\ Len(import_log) >= 2
    /\ import_log[1].status = "success"
    /\ import_log[1].date_range_end = Strftime(<<2005, 12, 31>>)
    /\ run.watermark_before = Strftime(<<2006, 1, 1>>)
    /\ GetLastSyncDate(import_log) = Strftime(<<2006, 1, 1>>)

----------------------------------------------------------------------------
(* C17: when the fetch returns no rows, incremental_sync appends one       *)
(* import_log entry with status 'success', records_fetched 0 and inserted  *)
(* and updated 0 for the window it requested, so that the watermark is the *)
(* current day afterwards although nothing was stored; sync_dataframe is   *)
(* not called.                                                             *)

C17_Step ==
    (/\ run' # run /\ IsIncremental'
     /\ run'.fetched /\ run'.error = NULL /\ run'.records = 0) =>
        /\ Len(import_log') = Len(import_log) + 1
        /\ SubSeq(import_log', 1, Len(import_log)) = import_log
        /\ LET e == import_log'[Len(import_log')]
           IN  /\ e.status = "success"
               /\ e.records_fetched = 0
               /\ e.records_inserted = 0
               /\ e.records_updated = 0
               /\ e.date_range_start = run'.start_date
               /\ e.date_range_end = run'.end_date
        /\ GetLastSyncDate(import_log') = Strftime(today)
        /\ ~run'.synced
        /\ processed' = processed
        /\ UNCHANGED dbvars

C17_EmptyFetchAdvances == [][C17_Step]_vars

\* the first run, an incremental one, fetched nothing: the tables are empty
\* and the watermark is the current day
C17_Witness ==
    /\ IsIncremental
    /\ run.fetched /\ run.error = NULL /\ run.records = 0
    /\ run.watermark_before = None
    /\ NumObs = 0
    /\ Len(import_log) = 1
    /\ import_log[1].status = "success"
    /\ GetLastSyncDate(import_log) = Strftime(today)

----------------------------------------------------------------------------
(* C18: full_sync appends an import_log entry only when the fetch returned *)
(* at least one row, and that entry has status 'success' and the window    *)
(* 2005-01-01 to the current day; when the connection test fails, the      *)
(* fetch raises or the answer is empty it appends no entry and changes no  *)
(* table.                                                                  *)

IsFull == run.op = "full_sync"

C18_Step ==
    (run' # run /\ IsFull') =>
        /\ run'.records >= 1 =>
              /\ run'.fetched /\ run'.error = NULL
              /\ Len(import_log') = Len(import_log) + 1
              /\ SubSeq(import_log', 1, Len(import_log)) = import_log
              /\ LET e == import_log'[Len(import_log')]
                 IN  /\ e.status = "success"
                     /\ e.records_fetched = run'.records
                     /\ Strptime(e.date_range_start) = <<2005, 1, 1>>
                     /\ Strptime(e.date_range_end) = today
        /\ run'.records = 0 =>
              /\ import_log' = import_log
              /\ UNCHANGED dbvars

C18_FullSyncLogsOnlyData == [][C18_Step]_vars

\* a full sync whose fetch raised, after a run that stored a row: the log
\* still holds the entry of that run alone
C18_Witness ==
    /\ IsFull
    /\ run.error # NULL
    /\ run.exit = 1
    /\ NumObs >= 1
    /\ Len(import_log) = 1
    /\ import_log[1].status = "success"
    /\ import_log[1].records_fetched = 1

----------------------------------------------------------------------------
(* C19: in full_sync and in incremental_sync get_market_prices is called   *)
(* only after test_connection has returned True; test_connection answers   *)
(* False, and does not raise, when its request raised, and the run then    *)
(* exits with status 1 without fetching and without writing an import_log  *)
(* entry.                                                                  *)

C19_Step ==
    (run' # run) =>
        /\ run'.fetched => (run'.tested /\ run'.conn = "returned")
        /\ (run'.tested /\ run'.conn = "raised") =>
              /\ run'.exit = 1
              /\ ~run'.fetched
              /\ ~run'.synced
              /\ import_log' = import_log
              /\ UNCHANGED dbvars
        /\ run'.tested <=> run'.conn \in RequestOutcomes
        /\ \A outcome \in RequestOutcomes :
              TestConnection(outcome) = (outcome # "raised")

C19_TestGatesFetch == [][C19_Step]_vars

\* a third run stopped by the connection test: the log holds nothing but the
\* entry of an earlier run that passed the test and stored a row
C19_Witness ==
    /\ run.count = 3
    /\ run.tested /\ run.conn = "raised"
    /\ run.exit = 1
    /\ ~run.fetched
    /\ NumObs >= 1
    /\ Len(import_log) = 1

----------------------------------------------------------------------------
(* C20: in every reachable state every price_observations row has a        *)
(* market_id, a product_id and a unit_id that are ids of existing rows of  *)
(* markets, products and units, and a source_id that is null or the id of  *)
(* an existing data_sources row.                                           *)

C20_ReferentialIntegrity ==
    \A i \in 1..Len(price_observations) :
        LET o == price_observations[i]
        IN  /\ o.market_id \in 1..Len(markets)
            /\ o.product_id \in 1..Len(products)
            /\ o.unit_id \in 1..Len(units)
            /\ o.source_id = NoId \/ o.source_id \in 1..Len(data_sources)

\* one call stored an observation with a data source and one without, and
\* counted a row without a market id as an error
C20_Witness ==
    /\ IsSync
    /\ Len(call.df) = 3
    /\ call.stats.errors = 1
    /\ NumObs = 2
    /\ \E i \in 1..NumObs : price_observations[i].source_id = NoId
    /\ \E i \in 1..NumObs : price_observations[i].source_id \in 1..Len(data_sources)

----------------------------------------------------------------------------
(* C21: the keys of the results fit_all_models returns are exactly the     *)
(* markets with sufficient data, that is with at least min_months          *)
(* observations spanning at least min_months months, plus 'Market          *)
(* Average', which is there if and only if some market is sufficient; a    *)
(* market with insufficient data is never fitted, and an empty query       *)
(* result yields ({}, {}).                                                 *)

Returned == forecast.pc = "returned"

\* whole months from date a to date b, a not after b
MonthsBetween(a, b) ==
    12 * (b[1] - a[1]) + (b[2] - a[2]) - (IF b[3] < a[3] THEN 1 ELSE 0)

\* the months between the first and the last observation of a market
SpanMonths(df, market_name) ==
    LET dates == {df[i].date : i \in MarketRows(df, market_name)}
        first == CHOOSE a \in dates : \A b \in dates : Ordinal(a) <= Ordinal(b)
        last == CHOOSE a \in dates : \A b \in dates : Ordinal(b) <= Ordinal(a)
    IN  MonthsBetween(first, last)

\* the markets of df with min_months observations over min_months months
SufficientMarkets(df, min_months) ==
    {m \in UniqueMarkets(df) :
        /\ Cardinality(MarketRows(df, m)) >= min_months
        /\ SpanMonths(df, m) >= min_months}

WithAverage(names) == names \cup (IF names # {} THEN {"Market Average"} ELSE {})

C21_FitsFlaggedMarkets ==
    Returned =>
        LET flagged == {m \in DOMAIN forecast.availability :
                           forecast.availability[m].sufficient}
        IN  /\ DOMAIN forecast.results = WithAverage(flagged)
            /\ forecast.fitted = flagged
            /\ flagged \subseteq SufficientMarkets(forecast.df, forecast.min_months)
            /\ DOMAIN forecast.availability = UniqueMarkets(forecast.df)
            /\ Len(forecast.df) = 0 =>
                  forecast.results = <<>> /\ forecast.availability = <<>>

\* a market with two observations a month apart, 2021-02-01 and 2021-03-01,
\* asked for with min_months = 1, is left out, and nothing is fitted
C21_MonthApartLeftOut ==
    /\ Returned
    /\ forecast.min_months = 1
    /\ forecast.df = <<[date |-> <<2021, 2, 1>>, market_name |-> "Jacmel"],
                       [date |-> <<2021, 3, 1>>, market_name |-> "Jacmel"]>>
    /\ forecast.results = <<>>
    /\ ~forecast.availability["Jacmel"].sufficient

\* one market fitted and averaged, another one left out for want of data
C21_OneFitted ==
    /\ Returned
    /\ DOMAIN forecast.results = {"Jacmel", "Market Average"}
    /\ forecast.fitted = {"Jacmel"}
    /\ DOMAIN forecast.availability = {"Hinche", "Jacmel"}
    /\ ~forecast.results["Jacmel"].success

====
